---- MODULE Spec2Model ----
(***************************************************************************)
(* Model of k8s_elections/models/meta.py: the file-backed election store   *)
(* (classes Meta and Election), its synchronisation with the meta          *)
(* repository (update_store) and its read API (get, all, where).           *)
(*                                                                         *)
(* The working copy is modelled as a tree below <META>/elections; paths    *)
(* are sequences of path components relative to META.  update_store is a   *)
(* sequence of steps (fetch, update_keys, one query iteration per key,     *)
(* sync_db_with_meta) because no lock is held and the reads of other       *)
(* requests can fall between any two of them.                              *)
(***************************************************************************)
EXTENDS Integers, Sequences, FiniteSets, TLC

\* ------------------------------------------------------------------ bounds
MaxSyncs == 2      \* update_store calls started in one behaviour
MaxNow   == 3      \* the wall clock runs over 0..MaxNow

\* ------------------------------------------------------------------ inputs
\* Names that may appear under <META>/elections.
Names == {"e1", "e2"}

\* The documents an election.yaml may hold.  Both run from 1 to 2; the
\* second declares one more field.
DocPlain == [start_time |-> 1, end_time |-> 2]
DocNamed == [start_time |-> 1, end_time |-> 2, name |-> "x"]

\* What a name under elections/ can be: nothing, a plain file, or a
\* directory with its election.yaml (absent, malformed, a document, or
\* "nested": itself a directory that holds a well-formed election.yaml) and
\* its optional election_desc.md / results.md.
Entry(type, yaml, doc, desc, results) ==
    [type |-> type, yaml |-> yaml, doc |-> doc, desc |-> desc, results |-> results]

NoEntry     == Entry("none", "absent", DocPlain, FALSE, FALSE)
FileEntry   == Entry("file", "absent", DocPlain, FALSE, FALSE)
NoYamlDir   == Entry("dir",  "absent", DocPlain, FALSE, FALSE)
BadYamlDir  == Entry("dir",  "bad",    DocPlain, FALSE, FALSE)
PlainDir    == Entry("dir",  "ok",     DocPlain, FALSE, FALSE)
NamedDir    == Entry("dir",  "ok",     DocNamed, TRUE,  TRUE)
NestedDir   == Entry("dir",  "nested", DocPlain, FALSE, FALSE)

Tree(a, b) == [n \in Names |-> IF n = "e1" THEN a ELSE b]

EmptyTree == Tree(NoEntry, NoEntry)

\* The trees a working copy is found in, at construction and after a fetch.
Trees ==
    { EmptyTree,
      Tree(PlainDir,   NoEntry),
      Tree(PlainDir,   NamedDir),
      Tree(NoEntry,    NamedDir),
      Tree(NamedDir,   FileEntry),
      Tree(BadYamlDir, PlainDir),
      Tree(NestedDir,  PlainDir),
      Tree(NoYamlDir,  NoEntry) }

\* Branches the backend may be configured with (meta['BRANCH']).
Branches == {"main", "dev"}

\* Arguments where() is called with.
WhereArgs == { <<"status", "ONGOING">>, <<"name", "x">>, <<"key", "e1">> }

VARIABLES
    keys,       \* self.keys: list of known keys
    store,      \* self.store: insertion-ordered dict, a sequence of <<key, record>>
    metaIsDir,  \* os.path.isdir(self.META)
    disk,       \* the tree below <META>/elections
    now,        \* wall clock
    pc,         \* position of the update_store call in flight, "idle" if none
    qi,         \* position of query()'s loop in self.keys
    fetchOk,    \* exit status of the git command of the current/last update_store
    keys0,      \* self.keys when the current/last update_store was called
    store0,     \* self.store when the current/last update_store was called
    db,         \* the snapshot last handed to utils.sync_db_with_meta
    steps,      \* the steps the current/last update_store has performed
    syncs,      \* update_store calls started
    ret,        \* outcome of the step or call just performed
    BRANCH,     \* self.BRANCH, the configured branch
    git,        \* the git command of the current/last update_store
    edir        \* the files of the election directory candidates() lists

vars == <<keys, store, metaIsDir, disk, now, pc, qi, fetchOk, keys0, store0,
          db, steps, syncs, ret, BRANCH, git, edir>>

\* ------------------------------------------------------------------ helpers
Range(s) == { s[i] : i \in DOMAIN s }

Last(s) == s[Len(s)]

\* Python dict operations on the insertion-ordered store.
StoreKeys(st) == { st[i][1] : i \in DOMAIN st }

StoreGet(st, k) == st[CHOOSE i \in DOMAIN st : st[i][1] = k][2]

StoreSet(st, k, v) ==
    IF k \in StoreKeys(st)
    THEN [i \in DOMAIN st |-> IF st[i][1] = k THEN <<k, v>> ELSE st[i]]
    ELSE Append(st, <<k, v>>)

\* All orders os.listdir may return a set of names in.
Perms(S) ==
    { s \in [1..Cardinality(S) -> S] : \A i, j \in DOMAIN s : i # j => s[i] # s[j] }

NoRec == [key |-> ""]

Outcome(op, arg, kind, val, log) ==
    [op |-> op, arg |-> arg, kind |-> kind, val |-> val, log |-> log]

NoLog == [created |-> {}, updated |-> {}, deleted |-> {}]

\* ------------------------------------------------------------------ files
\* self._path, relative to self.META (Election.__init__).
SelfPath == <<"elections">>

\* os.path.join(path, name)
Join(path, name) == Append(path, name)

IsElectionDir(d, path) ==
    /\ Len(path) = 2
    /\ path[1] = "elections"
    /\ path[2] \in Names
    /\ d[path[2]].type = "dir"

\* What a read of the file at path finds: [state, doc] with state "absent"
\* (no regular file there), "bad" (malformed) or "ok".
FileAt(d, path) ==
    IF /\ Len(path) = 3
       /\ IsElectionDir(d, SubSeq(path, 1, 2))
       /\ path[3] = "election.yaml"
       /\ d[path[2]].yaml \in {"bad", "ok"}
    THEN [state |-> d[path[2]].yaml, doc |-> d[path[2]].doc]
    ELSE IF /\ Len(path) = 4
            /\ IsElectionDir(d, SubSeq(path, 1, 2))
            /\ path[3] = "election.yaml"
            /\ path[4] = "election.yaml"
            /\ d[path[2]].yaml = "nested"
    THEN [state |-> "ok", doc |-> d[path[2]].doc]
    ELSE [state |-> "absent", doc |-> DocPlain]

\* utils.parse_yaml_from_file: NotFoundError if the path is absent,
\* ParseError on malformed content, the mapping otherwise.
ParseYamlFromFile(d, path) ==
    LET f == FileAt(d, path) IN
    CASE f.state = "absent" -> [ok |-> FALSE, err |-> "NotFoundError", doc |-> DocPlain]
      [] f.state = "bad"    -> [ok |-> FALSE, err |-> "ParseError",    doc |-> DocPlain]
      [] OTHER              -> [ok |-> TRUE,  err |-> "",              doc |-> f.doc]

\* utils.renderMD on a file path: the rendered file, "" when it is absent.
RenderMD(d, path) ==
    IF /\ Len(path) = 3
       /\ IsElectionDir(d, SubSeq(path, 1, 2))
       /\ \/ path[3] = "election_desc.md" /\ d[path[2]].desc
          \/ path[3] = "results.md" /\ d[path[2]].results
    THEN "<p>" \o path[3] \o "</p>"
    ELSE ""

\* check_election_status with the start instant counted as not yet begun.
CheckElectionStatusStrict(election, t) ==
    IF t <= election.start_time THEN "UPCOMING"
    ELSE IF t > election.end_time THEN "ENDED"
    ELSE "ONGOING"

\* utils.check_election_status: the status at wall-clock time t.
CheckElectionStatus(election, t) ==
    IF t < election.start_time THEN "UPCOMING"
    ELSE IF t > election.end_time THEN "ENDED"
    ELSE "ONGOING"

\* Election.build_election_from_yaml(_path) at time t.  The assignments to
\* election[...] override fields the document declares.
BuildElectionFromYaml(d, t, path) ==
    LET y == ParseYamlFromFile(d, Join(path, "election.yaml")) IN
    IF ~y.ok
    THEN [ok |-> FALSE, err |-> y.err, rec |-> NoRec]
    ELSE [ok |-> TRUE, err |-> "",
          rec |-> [status      |-> CheckElectionStatus(y.doc, t),
                   key         |-> Last(path),
                   description |-> RenderMD(d, Join(path, "election_desc.md")),
                   results     |-> RenderMD(d, Join(path, "results.md"))]
                  @@ y.doc]

\* Election.fallback(key)
Fallback(d, t, key) ==
    BuildElectionFromYaml(d, t, Join(Join(SelfPath, key), "election.yaml"))

\* The parse query() performs for key e.
QueryParse(d, t, e) == BuildElectionFromYaml(d, t, Join(SelfPath, e))

\* ------------------------------------------------------------------ reads
\* Meta.all()
All(st) == [i \in DOMAIN st |-> st[i][2]]

SelectSeq2(s, f, v) ==
    LET F[i \in 0..Len(s)] ==
            IF i = 0 THEN <<>>
            ELSE IF s[i][f] = v THEN Append(F[i-1], s[i]) ELSE F[i-1]
    IN F[Len(s)]

\* Meta.where(key, value): r[key] raises KeyError on a record without key.
Where(st, f, v) ==
    LET a == All(st) IN
    IF \E i \in DOMAIN a : f \notin DOMAIN a[i]
    THEN Outcome("where", <<f, v>>, "KeyError", <<>>, NoLog)
    ELSE Outcome("where", <<f, v>>, "ok", SelectSeq2(a, f, v), NoLog)

\* Meta.get(key) without the test of line 114.
GetMissesKeyCheck(ks, st, d, t, key) ==
    IF key \in StoreKeys(st)
    THEN Outcome("get", <<key>>, "ok", <<StoreGet(st, key)>>, NoLog)
    ELSE LET f == Fallback(d, t, key) IN
         IF f.ok THEN Outcome("get", <<key>>, "ok", <<f.rec>>, NoLog)
         ELSE Outcome("get", <<key>>, f.err, <<>>, NoLog)

\* Meta.get(key) that brings the status of a stored record up to date.
GetRecomputesStatus(ks, st, d, t, key) ==
    IF key \notin Range(ks)
    THEN Outcome("get", <<key>>, "NotFound404", <<>>, NoLog)
    ELSE IF key \in StoreKeys(st)
    THEN Outcome("get", <<key>>, "ok",
                 << [status |-> CheckElectionStatus(StoreGet(st, key), t)]
                    @@ StoreGet(st, key) >>, NoLog)
    ELSE LET f == Fallback(d, t, key) IN
         IF f.ok THEN Outcome("get", <<key>>, "ok", <<f.rec>>, NoLog)
         ELSE Outcome("get", <<key>>, f.err, <<>>, NoLog)

\* Meta.get(key)
Get(ks, st, d, t, key) ==
    IF key \notin Range(ks)
    THEN Outcome("get", <<key>>, "NotFound404", <<>>, NoLog)
    ELSE IF key \in StoreKeys(st)
    THEN Outcome("get", <<key>>, "ok", <<StoreGet(st, key)>>, NoLog)
    ELSE LET f == Fallback(d, t, key) IN
         IF f.ok THEN Outcome("get", <<key>>, "ok", <<f.rec>>, NoLog)
         ELSE Outcome("get", <<key>>, f.err, <<>>, NoLog)

\* ------------------------------------------------------------------ sync
\* utils.sync_db_with_meta: diff of the snapshot against the durable table,
\* by record key.
SnapKeys(snap) == { snap[i].key : i \in DOMAIN snap }

SnapRec(snap, k) == snap[CHOOSE i \in DOMAIN snap : snap[i].key = k]

SyncDbWithMeta(table, snap) ==
    [created |-> SnapKeys(snap) \ SnapKeys(table),
     deleted |-> SnapKeys(table) \ SnapKeys(snap),
     updated |-> { k \in SnapKeys(snap) \cap SnapKeys(table) :
                     SnapRec(snap, k) # SnapRec(table, k) }]

Running == Outcome("update_store", <<>>, "running", <<>>, NoLog)

Raised(err) == Outcome("update_store", <<>>, err, <<>>, NoLog)

\* The directories os.listdir(self._path) finds (Election.update_keys).
Dirs(d) == { n \in Names : d[n].type = "dir" }

\* The git command update_store runs: a clone without a branch option, which
\* checks out the branch the remote's HEAD names, or `pull origin main`.
GitCommand(isDir, head) ==
    IF isDir THEN [cmd |-> "pull",  branch |-> "main"]
    ELSE          [cmd |-> "clone", branch |-> head]

\* update_store, lines 154-160: clone when META is no directory, pull
\* otherwise.  os.system returns the exit status, which is dropped: the
\* call goes on to update_keys whether or not git succeeded.  A git command
\* that fails leaves the working copy as it was; one that succeeds leaves it
\* in any of Trees.  head is the branch the remote's HEAD names.
Fetch(ok, tree, head) ==
    /\ pc = "idle"
    /\ syncs < MaxSyncs
    /\ syncs' = syncs + 1
    /\ keys0' = keys
    /\ store0' = store
    /\ fetchOk' = ok
    /\ IF ok
       THEN metaIsDir' = TRUE /\ disk' = tree
       ELSE UNCHANGED <<metaIsDir, disk>>
    /\ git' = GitCommand(metaIsDir, head)
    /\ steps' = << git'.cmd >>
    /\ pc' = "update_keys"
    /\ ret' = Running
    /\ UNCHANGED <<keys, store, now, qi, db, BRANCH, edir>>

\* update_store, line 162: self.update_keys().  os.listdir raises when the
\* directory is missing, and the exception leaves update_store.
UpdateKeys ==
    /\ pc = "update_keys"
    /\ steps' = Append(steps, "update_keys")
    /\ IF ~metaIsDir
       THEN /\ pc' = "idle"
            /\ ret' = Raised("FileNotFoundError")
            /\ UNCHANGED <<keys, qi>>
       ELSE \E order \in Perms(Dirs(disk)) :
            /\ keys' = order
            /\ qi' = 1
            /\ pc' = IF order = <<>> THEN "sync_db" ELSE "query"
            /\ ret' = Running
    /\ UNCHANGED <<store, metaIsDir, disk, now, fetchOk, keys0, store0, db, syncs, BRANCH, git, edir>>

\* query() with its return inside the loop: it stops after the first key.
QueryStepFirstOnly ==
    /\ pc = "query"
    /\ qi <= Len(keys)
    /\ LET e == keys[qi]
           b == QueryParse(disk, now, e)
       IN /\ steps' = Append(steps, "parse " \o e)
          /\ IF b.ok
             THEN /\ store' = StoreSet(store, e, b.rec)
                  /\ qi' = qi + 1
                  /\ pc' = "sync_db"
                  /\ ret' = Running
             ELSE /\ pc' = "idle"
                  /\ ret' = Raised(b.err)
                  /\ UNCHANGED <<store, qi>>
    /\ UNCHANGED <<keys, metaIsDir, disk, now, fetchOk, keys0, store0, db, syncs, BRANCH, git, edir>>

\* One iteration of the loop of query(), lines 175-177.  A failing parse
\* raises out of query() and out of update_store.
QueryStep ==
    /\ pc = "query"
    /\ qi <= Len(keys)
    /\ LET e == keys[qi]
           b == QueryParse(disk, now, e)
       IN /\ steps' = Append(steps, "parse " \o e)
          /\ IF b.ok
             THEN /\ store' = StoreSet(store, e, b.rec)
                  /\ qi' = qi + 1
                  /\ pc' = IF qi = Len(keys) THEN "sync_db" ELSE "query"
                  /\ ret' = Running
             ELSE /\ pc' = "idle"
                  /\ ret' = Raised(b.err)
                  /\ UNCHANGED <<store, qi>>
    /\ UNCHANGED <<keys, metaIsDir, disk, now, fetchOk, keys0, store0, db, syncs, BRANCH, git, edir>>

\* update_store, lines 164-165: the reconciler gets self.all(); the call
\* returns (self, log).
SyncDb ==
    /\ pc = "sync_db"
    /\ steps' = Append(steps, "sync_db")
    /\ db' = All(store)
    /\ pc' = "idle"
    /\ ret' = Outcome("update_store", <<>>, "ok", All(store),
                      SyncDbWithMeta(db, All(store)))
    /\ UNCHANGED <<keys, store, metaIsDir, disk, now, qi, fetchOk, keys0, store0, syncs, BRANCH, git, edir>>

\* ------------------------------------------------------------------ calls
\* get(key) that keeps the record its fallback parsed in self.store.
GetCallCaching(key) ==
    /\ ret' = Get(keys, store, disk, now, key)
    /\ store' = IF key \in Range(keys) /\ key \notin StoreKeys(store)
                   /\ Fallback(disk, now, key).ok
                THEN StoreSet(store, key, Fallback(disk, now, key).rec)
                ELSE store
    /\ UNCHANGED <<keys, metaIsDir, disk, now, pc, qi, fetchOk,
                   keys0, store0, db, steps, syncs, BRANCH, git, edir>>

\* A request calling get(key); it may fall between two steps of a sync.
GetCall(key) ==
    /\ ret' = Get(keys, store, disk, now, key)
    /\ UNCHANGED <<keys, store, metaIsDir, disk, now, pc, qi, fetchOk,
                   keys0, store0, db, steps, syncs, BRANCH, git, edir>>

AllCall ==
    /\ ret' = Outcome("all", <<>>, "ok", All(store), NoLog)
    /\ UNCHANGED <<keys, store, metaIsDir, disk, now, pc, qi, fetchOk,
                   keys0, store0, db, steps, syncs, BRANCH, git, edir>>

WhereCall(f, v) ==
    /\ ret' = Where(store, f, v)
    /\ UNCHANGED <<keys, store, metaIsDir, disk, now, pc, qi, fetchOk,
                   keys0, store0, db, steps, syncs, BRANCH, git, edir>>

\* The wall clock advances.
Tick ==
    /\ now < MaxNow
    /\ now' = now + 1
    /\ ret' = Outcome("tick", <<>>, "ok", <<>>, NoLog)
    /\ UNCHANGED <<keys, store, metaIsDir, disk, pc, qi, fetchOk,
                   keys0, store0, db, steps, syncs, BRANCH, git, edir>>

\* Meta.__init__ / Election.__init__: empty store and keys; META is a
\* directory if it was one or the clone of line 53 succeeded.
Init ==
    /\ keys = <<>>
    /\ store = <<>>
    /\ metaIsDir \in BOOLEAN
    /\ disk \in (IF metaIsDir THEN Trees ELSE {EmptyTree})
    /\ now = 0
    /\ pc = "idle"
    /\ qi = 1
    /\ fetchOk = TRUE
    /\ keys0 = <<>>
    /\ store0 = <<>>
    /\ db = <<>>
    /\ steps = <<>>
    /\ syncs = 0
    /\ ret = Outcome("init", <<>>, "ok", <<>>, NoLog)
    /\ BRANCH \in Branches
    /\ git = [cmd |-> "none", branch |-> "none"]
    /\ edir = {}

Next ==
    \/ \E ok \in BOOLEAN, tree \in Trees, head \in Branches : Fetch(ok, tree, head)
    \/ UpdateKeys
    \/ QueryStep
    \/ SyncDb
    \/ \E key \in Names : GetCall(key)
    \/ AllCall
    \/ \E a \in WhereArgs : WhereCall(a[1], a[2])
    \/ Tick

Spec == Init /\ [][Next]_vars

\* ------------------------------------------------------------------ candidates
\* File names are sequences of pieces, chosen so that the text "candidate"
\* occurs in a name exactly where it is one of its pieces.
CandIds == {"1", "2"}

\* 'candidate-{}.md'.format(cid)
CandidateFileName(cid) == <<"candidate", "-", cid, ".md">>

FileNames ==
    { CandidateFileName(c) : c \in CandIds }
        \cup { <<"notes", ".md">>, <<"candidate", "s", ".txt">> }

\* A file of an election directory: its name and what its markdown holds,
\* the ID of its front matter and its text.
EFiles == [name : FileNames, ID : CandIds, text : {"a", "b"}]

\* The directories candidates() may list: no two files share a name, and
\* the text of a file is fixed by its name so that files differ.
EDirs ==
    { S \in SUBSET EFiles :
        /\ \A f, g \in S : f.name = g.name => f = g
        /\ \A f \in S : f.text = (IF f.name[1] = "notes" THEN "b" ELSE "a") }

\* 'candidate' in f
HasCandidate(name) == \E i \in DOMAIN name : name[i] = "candidate"

\* utils.extract_candidate_info: the front matter of the markdown.  The
\* record also names the file it was read from, to tell records apart.
ExtractCandidateInfo(f) == [ID |-> f.ID, file |-> f.name, text |-> f.text]

\* Election.candidates(eid) over the listing files (a sequence of EFiles).
Candidates(files) ==
    LET F[i \in 0..Len(files)] ==
            IF i = 0 THEN <<>>
            ELSE IF HasCandidate(files[i].name)
                 THEN Append(F[i-1],
                             [key |-> files[i].ID] @@ ExtractCandidateInfo(files[i]))
                 ELSE F[i-1]
    IN F[Len(files)]

\* Election.candidate(eid, cid) in the directory dir.
Candidate(dir, eid, cid) ==
    IF ~\E f \in dir : f.name = CandidateFileName(cid)
    THEN Outcome("candidate", <<eid, cid>>, "NotFound404", <<>>, NoLog)
    ELSE LET f == CHOOSE g \in dir : g.name = CandidateFileName(cid) IN
         Outcome("candidate", <<eid, cid>>, "ok",
                 << [key |-> cid, election_key |-> eid,
                     description |-> "<p>" \o f.text \o "</p>"]
                    @@ ExtractCandidateInfo(f) >>, NoLog)

CandidatesCall(eid) ==
    /\ disk[eid].type = "dir"
    /\ \E files \in Perms(edir) :
         ret' = Outcome("candidates", <<eid>>, "ok", Candidates(files), NoLog)
    /\ UNCHANGED <<keys, store, metaIsDir, disk, now, pc, qi, fetchOk,
                   keys0, store0, db, steps, syncs, BRANCH, git, edir>>

CandidateCall(eid, cid) ==
    /\ disk[eid].type = "dir"
    /\ ret' = Candidate(edir, eid, cid)
    /\ UNCHANGED <<keys, store, metaIsDir, disk, now, pc, qi, fetchOk,
                   keys0, store0, db, steps, syncs, BRANCH, git, edir>>

\* A backend just constructed over a working copy whose elections/e1 holds
\* any of EDirs.
InitCand ==
    /\ keys = <<>>
    /\ store = <<>>
    /\ metaIsDir = TRUE
    /\ disk = Tree(PlainDir, NoEntry)
    /\ now = 0
    /\ pc = "idle"
    /\ qi = 1
    /\ fetchOk = TRUE
    /\ keys0 = <<>>
    /\ store0 = <<>>
    /\ db = <<>>
    /\ steps = <<>>
    /\ syncs = 0
    /\ ret = Outcome("init", <<>>, "ok", <<>>, NoLog)
    /\ BRANCH = "main"
    /\ git = [cmd |-> "none", branch |-> "none"]
    /\ edir \in EDirs

NextCand ==
    \/ CandidatesCall("e1")
    \/ \E cid \in CandIds \cup {"3"} : CandidateCall("e1", cid)

SpecCand == InitCand /\ [][NextCand]_vars

\* ------------------------------------------------------------------ claims
GetReturned == ret.op = "get"

SyncEnded == pc = "idle" /\ ret.op = "update_store"

SyncReturned == SyncEnded /\ ret.kind = "ok"

\* C1: a get(k) for a key k that is not in self.keys ends in the 404 abort,
\* also when self.store still holds a record for k from an earlier sync.
C1_GetUnknownKeyNotFound ==
    (GetReturned /\ ret.arg[1] \notin Range(keys)) => ret.kind = "NotFound404"

\* C1 witness: get(k) aborted with 404 while the store holds a record for k.
C1_Witness ==
    /\ GetReturned
    /\ ret.arg[1] \notin Range(keys)
    /\ ret.arg[1] \in StoreKeys(store)
    /\ ret.kind = "NotFound404"

\* C2: for a key k of self.keys without an entry in self.store, get(k) ends
\* as the direct parse of k's election directory does: with the same record,
\* or with the same error when the directory does not parse.
C2_FallbackEqualsDirectParse ==
    (/\ GetReturned
     /\ ret.arg[1] \in Range(keys)
     /\ ret.arg[1] \notin StoreKeys(store))
    => LET b == QueryParse(disk, now, ret.arg[1]) IN
       IF b.ok THEN ret.kind = "ok" /\ ret.val = <<b.rec>>
       ELSE ret.kind = b.err

\* C3: an update_store whose git command failed leaves self.keys and
\* self.store as they were when it was called.
C3_FailedFetchLeavesStore ==
    (SyncEnded /\ ~fetchOk) => (keys = keys0 /\ store = store0)

\* C4: an update_store whose git command failed ends with a SyncFailure and
\* does not return (self, log).
C4_FailedFetchSurfaced ==
    (SyncEnded /\ ~fetchOk) => ret.kind = "SyncFailure"

\* C5: after an update_store that returned, the keys of self.store are
\* self.keys, which are the election directories of the working copy, and
\* the snapshot handed to the reconciler holds no other election.
C5_StoreReplacedWholesale ==
    SyncReturned =>
        /\ StoreKeys(store) = Range(keys)
        /\ Range(keys) = Dirs(disk)
        /\ SnapKeys(ret.val) = Dirs(disk)
        /\ SnapKeys(db) = Dirs(disk)

\* C6: when a parse fails during query(), the error leaves update_store and
\* self.store is as it was before the refresh began.
C6_RefreshAllOrNothing ==
    (SyncEnded /\ ret.kind \in {"NotFoundError", "ParseError"})
    => store = store0

\* Meta.where as the claim has it: the records of all() whose field f equals
\* v, in order; a record without f is no match.
WhereExcluding(st, f, v) ==
    LET a == All(st)
        F[i \in 0..Len(a)] ==
            IF i = 0 THEN <<>>
            ELSE IF f \in DOMAIN a[i] /\ a[i][f] = v
                 THEN Append(F[i-1], a[i]) ELSE F[i-1]
    IN F[Len(a)]

\* C7: where(f, v) returns the records of all() whose field f equals v, in
\* all()'s order, and never raises: a record without f is excluded.
C7_WhereFiltersNeverRaises ==
    (ret.op = "where") =>
        /\ ret.kind = "ok"
        /\ ret.val = WhereExcluding(store, ret.arg[1], ret.arg[2])

\* C8: before the first update_store, get(k) for an election whose
\* directory is in the working copy is served by the fallback parse and
\* does not end in the 404 abort.
C8_GetBeforeFirstSyncFallsBack ==
    (/\ GetReturned
     /\ syncs = 0
     /\ store = <<>>
     /\ disk[ret.arg[1]].type = "dir")
    => /\ ret.kind # "NotFound404"
       /\ LET f == Fallback(disk, now, ret.arg[1]) IN
          IF f.ok THEN ret.kind = "ok" /\ ret.val = <<f.rec>>
          ELSE ret.kind = f.err

\* C9: a get() changes neither self.keys nor self.store, on any of its
\* paths; a record the fallback returns is not put into self.store.
C9_GetLeavesStore ==
    [][(ret'.op = "get") => (keys' = keys /\ store' = store)]_vars

\* C9 witness: get(k) returned a record from the fallback and the store
\* has no entry for k.
C9_Witness ==
    /\ GetReturned
    /\ ret.kind = "ok"
    /\ ret.arg[1] \in Range(keys)
    /\ ret.arg[1] \notin StoreKeys(store)

\* The steps of a complete update_store over the keys ks.
ExpectedSteps(fetch, ks) ==
    <<fetch, "update_keys">> \o [i \in DOMAIN ks |-> "parse " \o ks[i]]
        \o <<"sync_db">>

IsPrefix(s, t) == Len(s) <= Len(t) /\ s = SubSeq(t, 1, Len(s))

C10_StepsInOrder ==
    (syncs > 0) =>
        /\ steps # <<>>
        /\ steps[1] \in {"clone", "pull"}
        /\ IsPrefix(steps, ExpectedSteps(steps[1], keys))
        /\ SyncReturned =>
              /\ steps = ExpectedSteps(steps[1], keys)
              /\ db = All(store)
              /\ ret.val = All(store)

\* C10: every update_store performs, in this order, the fetch, update_keys,
\* one parse per key of self.keys in their order, and then one call of the
\* reconciler; the reconciler gets all() of the refreshed store and the
\* log returned is its diff of that snapshot against the table.
C10_SyncOrder ==
    /\ []C10_StepsInOrder
    /\ [][(pc = "sync_db" /\ pc' = "idle") =>
            /\ db' = All(store')
            /\ ret'.log = SyncDbWithMeta(db, All(store'))]_vars

\* C10 witness: an update_store over two keys returned, with a log that
\* reports a created election.
C10_Witness ==
    /\ SyncReturned
    /\ Len(keys) = 2
    /\ Len(steps) = 5
    /\ ret.log.created # {}

\* C11: the fetch of update_store is a clone of the configured branch when
\* META is no directory and a pull of the configured branch otherwise.
C11_FetchConfiguredBranch ==
    [][(pc = "idle" /\ pc' = "update_keys") =>
         /\ git'.cmd = (IF metaIsDir THEN "pull" ELSE "clone")
         /\ git'.branch = BRANCH]_vars

\* C12: every record get(k) returns, from self.store or from the fallback,
\* and every record of all(), has key equal to the election's directory
\* name, the key it is looked up or stored under.
C12_RecordKeyIsDirName ==
    /\ (GetReturned /\ ret.kind = "ok") => ret.val[1].key = ret.arg[1]
    /\ \A i \in DOMAIN store : store[i][2].key = store[i][1]

\* candidate-<id>.md
FollowsConvention(name) ==
    Len(name) = 4 /\ name[1] = "candidate" /\ name[2] = "-" /\ name[4] = ".md"

\* C13: candidates(e) returns one record for each file named
\* candidate-<id>.md, keyed by that <id>, and no record for any other file.
C13_CandidatesByConvention ==
    (ret.op = "candidates") =>
        LET conv == { f \in edir : FollowsConvention(f.name) } IN
        /\ Len(ret.val) = Cardinality(conv)
        /\ \A f \in conv :
             \E i \in DOMAIN ret.val :
                 ret.val[i].file = f.name /\ ret.val[i].key = f.name[3]
        /\ \A i \in DOMAIN ret.val : FollowsConvention(ret.val[i].file)

\* C18: for every record c of candidates(e), candidate(e, c.key) does not
\* end in the 404 abort and returns the candidate of the file c came from.
C18_ListAndLookupAgree ==
    (ret.op = "candidates") =>
        \A i \in DOMAIN ret.val :
            LET c == ret.val[i]
                o == Candidate(edir, ret.arg[1], c.key)
            IN /\ o.kind = "ok"
               /\ o.val[1].file = c.file
               /\ o.val[1].ID = c.ID
               /\ o.val[1].text = c.text

\* The status the claim gives a record parsed at time t.
StatusRight(rec, t) ==
    /\ rec.status \in {"UPCOMING", "ONGOING", "ENDED"}
    /\ (rec.status = "UPCOMING") <=> (t < rec.start_time)
    /\ (rec.status = "ONGOING") <=> (rec.start_time <= t /\ t <= rec.end_time)
    /\ (rec.status = "ENDED") <=> (t > rec.end_time)

\* C14: the status a parse attaches is UPCOMING before start_time, ONGOING
\* from start_time to end_time, both instants included, and ENDED after
\* end_time, by the clock at the parse.
C14_StatusAtParse ==
    [][(pc = "query" /\ qi' = qi + 1) =>
         StatusRight(StoreGet(store', keys[qi]), now)]_vars

\* C14 witness: query() has just stored a record parsed at the instant
\* end_time, with status ONGOING.
C14_Witness ==
    /\ pc \in {"query", "sync_db"}
    /\ ret = Running
    /\ qi > 1
    /\ LET r == StoreGet(store, keys[qi - 1]) IN
       r.status = "ONGOING" /\ now = r.end_time

\* C15: a get(k) that falls after update_keys has put a new key k into
\* self.keys and before query() has stored k returns the record parsed
\* from k's directory and does not end in the 404 abort.
C15_GetDuringSyncFallsBack ==
    (/\ GetReturned
     /\ pc = "query"
     /\ ret.arg[1] \in Range(keys)
     /\ ret.arg[1] \notin Range(keys0)
     /\ ret.arg[1] \notin StoreKeys(store))
    => /\ ret.kind # "NotFound404"
       /\ LET b == QueryParse(disk, now, ret.arg[1]) IN
          b.ok => (ret.kind = "ok" /\ ret.val = <<b.rec>>)

\* No update_store is in flight and the last one, if any, returned.
LastSyncCompleted == pc = "idle" /\ steps # <<>> /\ Last(steps) = "sync_db"

SameBut(st, st2, k) ==
    /\ StoreKeys(st2) = StoreKeys(st) \cup {k}
    /\ \A j \in StoreKeys(st) \ {k} : StoreGet(st2, j) = StoreGet(st, j)

\* C17: a stored record keeps the status of its parse: get(k) and all()
\* return the stored record as it is, the clock advancing leaves the store
\* alone, and the store changes only by query() storing the key it parses.
C17_StoredStatusKept ==
    /\ []((GetReturned /\ ret.kind = "ok" /\ ret.arg[1] \in StoreKeys(store))
            => ret.val = <<StoreGet(store, ret.arg[1])>>)
    /\ []((ret.op = "all") => ret.val = All(store))
    /\ [][(now' # now) => (store' = store)]_vars
    /\ [][(store' # store) =>
            (pc = "query" /\ SameBut(store, store', keys[qi]))]_vars

\* C17 witness: between syncs, get(k) returned a stored record whose status
\* is no longer the one the clock gives.
C17_Witness ==
    /\ pc = "idle"
    /\ GetReturned
    /\ ret.kind = "ok"
    /\ ret.arg[1] \in StoreKeys(store)
    /\ ret.val[1].status = "UPCOMING"
    /\ now > ret.val[1].end_time

====
